---- MODULE Spec2Model ----
\* A model of json_preprocessor's CloudFormation resolver (cli.py): the
\* process-wide STACK_LOOKUP cache, the index build over the remote
\* stack-description API, the exact / glob lookup, the cfn:// URI parser and
\* the run command; and of main.py's resolver over boto.
\*
\* Specifications: Spec (the resolver, one stack), SpecStacks (two stacks),
\* SpecUri (the URI parsers alone), SpecRun (one execution of run).
\*
\* Strings are sequences of one-character strings, so that concatenation,
\* prefix tests, URI splitting and glob matching are computed, not assumed.
EXTENDS Integers, Sequences, FiniteSets, TLC

\* ---------------------------------------------------------------------
\* Bounds of the model
\* ---------------------------------------------------------------------

\* stack S holds at most this many resources
MaxResources == 2

\* resource summaries per page of the paginated list_stack_resources call
PageSize == 1

\* at most this many index builds of a stack are made to fail
MaxFailures == 1

\* ---------------------------------------------------------------------
\* Strings
\* ---------------------------------------------------------------------

RECURSIVE Contains(_, _)
\* Python's `c in s` for a one-character c
Contains(s, c) ==
    IF s = <<>> THEN FALSE
    ELSE IF Head(s) = c THEN TRUE
    ELSE Contains(Tail(s), c)

\* position of the first c in s at or after position i, 0 when there is none
RECURSIVE Find(_, _, _)
Find(s, c, i) ==
    IF i > Len(s) THEN 0
    ELSE IF s[i] = c THEN i
    ELSE Find(s, c, i + 1)

\* s[i..j] as a sequence (empty when j < i)
Slice(s, i, j) == IF j < i THEN <<>> ELSE SubSeq(s, i, j)

\* ---------------------------------------------------------------------
\* fnmatch.fnmatch(name, pat), as fnmatch.translate builds the expression:
\* '*' any run of characters, '?' any one character, '[seq]' / '[!seq]' a
\* character class, an unclosed '[' a literal; the match is anchored at
\* both ends. (The alphabet of the model has no '-', so no class is a range;
\* os.path.normcase is the identity on POSIX.)
\* ---------------------------------------------------------------------

\* the index of the ']' closing the class opened at pat[i] = '[', 0 if none:
\* a leading '!' and a ']' right after it are part of the class
ClassEnd(pat, i) ==
    LET j1 == IF i + 1 <= Len(pat) /\ pat[i + 1] = "!" THEN i + 2 ELSE i + 1
        j2 == IF j1 <= Len(pat) /\ pat[j1] = "]" THEN j1 + 1 ELSE j1
    IN  Find(pat, "]", j2)

\* does character c belong to the class pat[i..e], '[' at i and ']' at e
ClassMatches(pat, i, e, c) ==
    LET negated == pat[i + 1] = "!"
        stuff   == IF negated THEN Slice(pat, i + 2, e - 1)
                   ELSE Slice(pat, i + 1, e - 1)
    IN  IF negated THEN ~Contains(stuff, c) ELSE Contains(stuff, c)

RECURSIVE MatchFrom(_, _, _, _)
\* does pat[i..] match name[j..] entirely
MatchFrom(pat, i, name, j) ==
    IF i > Len(pat) THEN j > Len(name)
    ELSE IF pat[i] = "*"
        THEN \/ MatchFrom(pat, i + 1, name, j)
             \/ (j <= Len(name) /\ MatchFrom(pat, i, name, j + 1))
    ELSE IF pat[i] = "?"
        THEN j <= Len(name) /\ MatchFrom(pat, i + 1, name, j + 1)
    ELSE IF pat[i] = "[" /\ ClassEnd(pat, i) # 0
        THEN /\ j <= Len(name)
             /\ ClassMatches(pat, i, ClassEnd(pat, i), name[j])
             /\ MatchFrom(pat, ClassEnd(pat, i) + 1, name, j + 1)
    ELSE /\ j <= Len(name)
         /\ name[j] = pat[i]
         /\ MatchFrom(pat, i + 1, name, j + 1)

fnmatch(name, pat) == MatchFrom(pat, 1, name, 1)

\* ---------------------------------------------------------------------
\* A Python dict, in insertion order: a sequence of <<key, value>> pairs
\* with distinct keys
\* ---------------------------------------------------------------------

DictKeys(d) == {d[k][1] : k \in 1..Len(d)}

DictHas(d, key) == key \in DictKeys(d)

\* d[key], for a key of d
DictGet(d, key) == d[CHOOSE k \in 1..Len(d) : d[k][1] = key][2]

\* an assignment that leaves the value of a present key as it is
DictSet_KeepFirst(d, key, value) ==
    IF DictHas(d, key) THEN d ELSE Append(d, <<key, value>>)

\* d[key] = value: a present key keeps its place and takes the new value, a
\* new key goes last
DictSet(d, key, value) ==
    IF DictHas(d, key)
    THEN [k \in 1..Len(d) |-> IF d[k][1] = key THEN <<key, value>> ELSE d[k]]
    ELSE Append(d, <<key, value>>)

\* ---------------------------------------------------------------------
\* urllib.parse, as parse_cfn_uri uses it
\* ---------------------------------------------------------------------

\* the letters of the model's alphabet and str.lower() on them
UpperCase == {"C", "F", "N", "S", "T", "A", "B"}

LowerCase == {"c", "f", "n", "h", "t", "p", "s", "a", "b"}

LowerChar(c) ==
    CASE c = "C" -> "c" [] c = "F" -> "f" [] c = "N" -> "n"
      [] c = "S" -> "s" [] c = "T" -> "t" [] c = "A" -> "a"
      [] c = "B" -> "b" [] OTHER -> c

Lower(s) == [k \in 1..Len(s) |-> LowerChar(s[k])]

\* urllib.parse.scheme_chars: letters, digits and "+-."
scheme_chars == UpperCase \cup LowerCase \cup {"+", "-", "."}

\* the position of the first of '/', '?', '#' in url at or after i, or
\* Len(url) + 1 (urllib.parse._splitnetloc)
RECURSIVE NetlocEnd(_, _)
NetlocEnd(url, i) ==
    IF i > Len(url) THEN Len(url) + 1
    ELSE IF url[i] \in {"/", "?", "#"} THEN i
    ELSE NetlocEnd(url, i + 1)

\* urllib.parse.urlsplit(url)
urlsplit(url) ==
    LET colon     == Find(url, ":", 1)
        hasScheme == /\ colon > 1
                     /\ url[1] \in UpperCase \cup LowerCase
                     /\ \A k \in 1..(colon - 1) : url[k] \in scheme_chars
        scheme    == IF hasScheme THEN Lower(Slice(url, 1, colon - 1)) ELSE <<>>
        rest1     == IF hasScheme THEN Slice(url, colon + 1, Len(url)) ELSE url
        hasNetloc == Len(rest1) >= 2 /\ rest1[1] = "/" /\ rest1[2] = "/"
        delim     == NetlocEnd(rest1, 3)
        netloc    == IF hasNetloc THEN Slice(rest1, 3, delim - 1) ELSE <<>>
        rest2     == IF hasNetloc THEN Slice(rest1, delim, Len(rest1)) ELSE rest1
        hash      == Find(rest2, "#", 1)
        fragment  == IF hash = 0 THEN <<>> ELSE Slice(rest2, hash + 1, Len(rest2))
        rest3     == IF hash = 0 THEN rest2 ELSE Slice(rest2, 1, hash - 1)
        qmark     == Find(rest3, "?", 1)
        query     == IF qmark = 0 THEN <<>> ELSE Slice(rest3, qmark + 1, Len(rest3))
        path      == IF qmark = 0 THEN rest3 ELSE Slice(rest3, 1, qmark - 1)
    IN  [scheme |-> scheme, netloc |-> netloc, path |-> path,
         query |-> query, fragment |-> fragment]

\* urllib.parse.urlunsplit of the parts, the fragment left out (no scheme of
\* the model is in uses_netloc without a netloc being present)
urlunsplit(parts) ==
    LET url1 == IF parts.netloc # <<>>
                THEN <<"/", "/">> \o parts.netloc \o
                     (IF parts.path # <<>> /\ parts.path[1] # "/"
                      THEN <<"/">> \o parts.path ELSE parts.path)
                ELSE parts.path
        url2 == IF parts.scheme # <<>> THEN parts.scheme \o <<":">> \o url1
                ELSE url1
    IN  IF parts.query # <<>> THEN url2 \o <<"?">> \o parts.query ELSE url2

\* urllib.parse.urldefrag(url)[0]: the url itself when it has no '#', else
\* the url rebuilt from its parts without the fragment
urldefrag(url) ==
    IF Contains(url, "#") THEN urlunsplit(urlsplit(url)) ELSE url

\* ---------------------------------------------------------------------
\* The remote stack-description API (boto3 cloudformation client)
\* ---------------------------------------------------------------------

LogicalId(i) == <<"L", ToString(i)>>

LogicalIds == {LogicalId(i) : i \in 1..MaxResources}

PhysicalId(s, i) == s \o <<"-", ToString(i)>>

\* the resource names a construct path of the model ends in
Names == {<<"A">>, <<"B">>}

\* aws:cdk:path of a resource of stack s
CdkPath(s, name) == s \o <<"/">> \o name

\* a StackResourceDetail's Metadata: absent, JSON without 'aws:cdk:path', or
\* JSON with it
MetadataChoices(s) ==
    {[kind |-> "absent", path |-> <<>>], [kind |-> "nopath", path |-> <<>>]}
    \cup {[kind |-> "path", path |-> CdkPath(s, n)] : n \in Names}

\* the possible contents of stack s with n resources, in enumeration order
RemoteContents(s, n) ==
    {[i \in 1..n |-> [LogicalResourceId  |-> LogicalId(i),
                      PhysicalResourceId |-> PhysicalId(s, i),
                      Metadata           |-> m[i]]] :
        m \in [1..n -> MetadataChoices(s)]}

VARIABLES
    remote,         \* existing stack -> its resources (an unchanging remote)
    STACK_LOOKUP,   \* cli.py's global: stack name -> index (a dict)
    listCalls,      \* stack -> list_stack_resources enumerations started
    describeCalls,  \* stack -> logical id -> describe_stack_resource calls
    failures,       \* stack -> the builds that a failing remote call aborted
    last,           \* the latest call: its arguments, remote calls and outcome
    process         \* one execution of run(): its position, arguments,
                    \* resolved values, stdout and the output file

vars ==
    <<remote, STACK_LOOKUP, listCalls, describeCalls, failures, last, process>>

\* the number of pages paginate() yields for n resources (one empty page for
\* an empty stack)
PageCount(n) == IF n = 0 THEN 1 ELSE (n + PageSize - 1) \div PageSize

\* the StackResourceSummaries of page p
Page(resources, p) ==
    Slice(resources, (p - 1) * PageSize + 1,
          IF p * PageSize < Len(resources) THEN p * PageSize ELSE Len(resources))

ListCall(stack_name, p) ==
    [op |-> "list_stack_resources", StackName |-> stack_name,
     page |-> p, LogicalResourceId |-> <<>>]

DescribeCall(stack_name, idn) ==
    [op |-> "describe_stack_resource", StackName |-> stack_name,
     page |-> 0, LogicalResourceId |-> idn]

\* client.describe_stack_resource(...)['StackResourceDetail']
describe_stack_resource(stack_name, idn) ==
    LET resources == remote[stack_name]
    IN  resources[CHOOSE k \in 1..Len(resources) :
                      resources[k].LogicalResourceId = idn]

\* ---------------------------------------------------------------------
\* retrieve_attribute (cli.py)
\* ---------------------------------------------------------------------

\* the outcome of a call: a returned scalar id (value has one element), a
\* returned list of ids, or a raised exception
Returned(id) == [kind |-> "scalar", value |-> <<id>>, error |-> "none"]

ReturnedList(ids) == [kind |-> "list", value |-> ids, error |-> "none"]

Raised(e) == [kind |-> "error", value |-> <<>>, error |-> e]

\* the first loop of the build: the LogicalResourceIds of pages 1..p
RECURSIVE CollectIds(_, _)
CollectIds(resources, p) ==
    IF p = 0 THEN <<>>
    ELSE LET page == Page(resources, p)
         IN  CollectIds(resources, p - 1) \o
             [k \in 1..Len(page) |-> page[k].LogicalResourceId]

\* the second loop of the build after ids[1..k] have been described: the
\* dict `stack` and the local variable `path`, which the loop body assigns
RECURSIVE DescribeLoop(_, _, _, _)
DescribeLoop(stack_name, ids, k, path) ==
    IF k = 0 THEN [stack |-> <<>>, path |-> path]
    ELSE LET prev     == DescribeLoop(stack_name, ids, k - 1, path)
             response == describe_stack_resource(stack_name, ids[k])
         IN  IF response.Metadata.kind = "path"
             THEN [stack |-> DictSet(prev.stack, response.Metadata.path,
                                     response.PhysicalResourceId),
                   path  |-> response.Metadata.path]
             ELSE prev

\* the body of `if stack_name not in STACK_LOOKUP`, up to the save: the
\* remote calls it makes, which of them raised (raisedAt, 0 for none), and
\* the locals `stack` and `path` it ends with. failAt = k > 0: the k-th
\* remote call raises; the first call for a stack that does not exist always
\* raises.
BuildIndex(stack_name, path, failAt) ==
    LET exists    == stack_name \in DOMAIN remote
        resources == IF exists THEN remote[stack_name] ELSE <<>>
        nPages    == PageCount(Len(resources))
        fail      == IF exists THEN failAt ELSE 1
        listed    == IF fail = 0 \/ fail > nPages THEN nPages ELSE fail - 1
        ids       == CollectIds(resources, listed)
        made      == IF fail = 0 THEN nPages + Len(ids) ELSE fail
        described == IF fail = 0 THEN Len(ids)
                     ELSE IF fail <= nPages THEN 0
                     ELSE fail - nPages - 1
        loop      == DescribeLoop(stack_name, ids, described, path)
    IN  [raisedAt |-> fail,
         calls  |-> [k \in 1..made |->
                        IF k <= nPages THEN ListCall(stack_name, k)
                        ELSE DescribeCall(stack_name, ids[k - nPages])],
         stack  |-> loop.stack,
         path   |-> loop.path]

\* the number of remote calls a complete build of stack_name makes
BuildLength(stack_name) ==
    IF stack_name \in DOMAIN remote
    THEN PageCount(Len(remote[stack_name])) + Len(remote[stack_name])
    ELSE 1

has_wildcards(path) ==
    Contains(path, "*") \/ Contains(path, "?") \/ Contains(path, "[")

\* the glob branch's loop: stack[candidate] of the first k candidates that
\* match, in the dict's order
RECURSIVE GlobResult(_, _, _)
GlobResult(stack, path, k) ==
    IF k = 0 THEN <<>>
    ELSE IF fnmatch(stack[k][1], path)
         THEN Append(GlobResult(stack, path, k - 1), stack[k][2])
         ELSE GlobResult(stack, path, k - 1)

\* retrieve_attribute from `stack = STACK_LOOKUP[stack_name]` on
Lookup(stack, path) ==
    IF has_wildcards(path)
    THEN LET result == GlobResult(stack, path, Len(stack))
         IN  IF Len(result) = 0 THEN Raised("NoMatchFound")
             ELSE ReturnedList(result)
    ELSE IF DictHas(stack, path) THEN Returned(DictGet(stack, path))
         ELSE Raised("PathNotFound")

\* how many of the calls are describe_stack_resource calls for idn
DescribeCount(calls, idn) ==
    Cardinality({k \in 1..Len(calls) :
                    /\ calls[k].op = "describe_stack_resource"
                    /\ calls[k].LogicalResourceId = idn})

\* the record of a call: the function called, the URI handle_cfn_uri was
\* given, the arguments of retrieve_attribute, whether the stack name was in
\* STACK_LOOKUP when it was called, the remote calls made, which of them
\* raised (0 for none) and the outcome
Call(op, uri, stack_name, path, hit, calls, raisedAt, outcome) ==
    [op |-> op, uri |-> uri, stack_name |-> stack_name, path |-> path,
     hit |-> hit, calls |-> calls, raisedAt |-> raisedAt, outcome |-> outcome]

\* the remote calls of a build, added to the counters kept for the stacks
\* that exist
Counted(stack_name, build) ==
    IF stack_name \in DOMAIN remote
    THEN /\ listCalls' = [listCalls EXCEPT ![stack_name] = @ + 1]
         /\ describeCalls' =
                [describeCalls EXCEPT ![stack_name] =
                    [idn \in LogicalIds |->
                        @[idn] + DescribeCount(build.calls, idn)]]
         /\ failures' = [failures EXCEPT ![stack_name] =
                            IF build.raisedAt # 0 THEN @ + 1 ELSE @]
    ELSE UNCHANGED <<listCalls, describeCalls, failures>>

\* a retrieve_attribute that never finds a stack name cached
InStackLookup_Never(stack_name) == FALSE

\* `stack_name in STACK_LOOKUP`
InStackLookup(stack_name) == stack_name \in DOMAIN STACK_LOOKUP

\* a build that swallows the exception of a remote call and carries on
Raises_Swallowed(build) == FALSE

\* an exception of a remote call leaves retrieve_attribute: nothing between
\* the client's creation and the save catches it
Raises(build) == build.raisedAt # 0

\* a cache that drops a stack's entry once a lookup has read it
CacheAfter_Invalidating(stack_name, hit, build) ==
    IF hit
    THEN [s \in DOMAIN STACK_LOOKUP \ {stack_name} |-> STACK_LOOKUP[s]]
    ELSE IF build.raisedAt # 0 THEN STACK_LOOKUP
    ELSE [s \in DOMAIN STACK_LOOKUP \cup {stack_name} |->
            IF s = stack_name THEN build.stack ELSE STACK_LOOKUP[s]]

\* a save that replaces the whole cache by the one new entry
CacheAfter_Replacing(stack_name, hit, build) ==
    IF hit \/ build.raisedAt # 0 THEN STACK_LOOKUP
    ELSE [s \in {stack_name} |-> build.stack]

\* a build that stores what it has gathered when a remote call raises
CacheAfter_KeepPartial(stack_name, hit, build) ==
    IF hit THEN STACK_LOOKUP
    ELSE [s \in DOMAIN STACK_LOOKUP \cup {stack_name} |->
            IF s = stack_name THEN build.stack ELSE STACK_LOOKUP[s]]

\* STACK_LOOKUP when retrieve_attribute ends: as it was on a hit and when
\* the build raised, with `STACK_LOOKUP[stack_name] = stack` after a build
CacheAfter(stack_name, hit, build) ==
    IF hit \/ Raises(build) THEN STACK_LOOKUP
    ELSE [s \in DOMAIN STACK_LOOKUP \cup {stack_name} |->
            IF s = stack_name THEN build.stack ELSE STACK_LOOKUP[s]]

\* what retrieve_attribute returns or raises: on a hit the lookup of the
\* argument `path` in the cached index; after a build the lookup of the
\* local `path` as the build's second loop left it
OutcomeOf(stack_name, path, hit, build) ==
    IF hit THEN Lookup(STACK_LOOKUP[stack_name], path)
    ELSE IF Raises(build) THEN Raised("RemoteCallFailure")
    ELSE Lookup(build.stack, build.path)

\* the remote calls the model makes fail: none when no build is made, one of
\* the calls of the build of an existing stack while it has failures left
\* (the build for a stack that does not exist fails by itself)
CanFail(stack_name, hit, failAt) ==
    IF hit \/ stack_name \notin DOMAIN remote THEN failAt = 0
    ELSE /\ failAt <= BuildLength(stack_name)
         /\ (failAt # 0 => failures[stack_name] < MaxFailures)

\* retrieve_attribute(stack_name, path), called directly (op =
\* "retrieve_attribute") or by handle_cfn_uri(uri)
retrieve_attribute(stack_name, path, failAt, op, uri) ==
    LET hit   == InStackLookup(stack_name)
        build == BuildIndex(stack_name, path, failAt)
    IN  /\ CanFail(stack_name, hit, failAt)
        /\ STACK_LOOKUP' = CacheAfter(stack_name, hit, build)
        /\ UNCHANGED remote
        /\ IF hit
           THEN /\ last' = Call(op, uri, stack_name, path, hit, <<>>, 0,
                                OutcomeOf(stack_name, path, hit, build))
                /\ UNCHANGED <<listCalls, describeCalls, failures>>
           ELSE /\ Counted(stack_name, build)
                /\ last' = Call(op, uri, stack_name, path, hit, build.calls,
                                build.raisedAt,
                                OutcomeOf(stack_name, path, hit, build))

\* ---------------------------------------------------------------------
\* parse_cfn_uri and handle_cfn_uri (cli.py)
\* ---------------------------------------------------------------------

\* a parse_cfn_uri without the scheme check
parse_cfn_uri_AnyScheme(uri) ==
    LET base_uri_parts == urlsplit(urldefrag(uri))
    IN  [raised |-> FALSE,
         stack_name |-> base_uri_parts.netloc,
         path |-> base_uri_parts.netloc \o base_uri_parts.path]

\* parse_cfn_uri(uri): the pair it returns, or the exception it raises
parse_cfn_uri(uri) ==
    LET base_uri_parts == urlsplit(urldefrag(uri))
        scheme         == base_uri_parts.scheme
    IN  IF scheme # <<"c", "f", "n">>
        THEN [raised |-> TRUE, stack_name |-> <<>>, path |-> <<>>]
        ELSE [raised |-> FALSE,
              stack_name |-> base_uri_parts.netloc,
              path |-> base_uri_parts.netloc \o base_uri_parts.path]

handle_cfn_uri(uri, failAt) ==
    LET parsed == parse_cfn_uri(uri)
    IN  IF parsed.raised
        THEN /\ failAt = 0
             /\ last' = Call("handle_cfn_uri", uri, <<>>, <<>>, FALSE, <<>>, 0,
                              Raised("InvalidScheme"))
             /\ UNCHANGED <<remote, STACK_LOOKUP, listCalls, describeCalls,
                            failures>>
        ELSE retrieve_attribute(parsed.stack_name, parsed.path, failAt,
                                "handle_cfn_uri", uri)

\* ---------------------------------------------------------------------
\* The inputs of the model and the state machine
\* ---------------------------------------------------------------------

\* the direct calls of the model, against stack S: exact names and patterns
\* with '*', '?' and a negated class
Requests ==
    {<<(<<"S">>), CdkPath(<<"S">>, t)>> :
        t \in {<<"A">>, <<"B">>, <<"*">>, <<"?">>, <<"B", "*">>,
               <<"[", "!", "A", "]">>}}

\* the URIs of the model: a plain one, a pattern with a fragment, one with
\* the scheme in capitals, one without '//' (no authority), one of another
\* scheme and one without a scheme
Uris ==
    {<<"c", "f", "n", ":", "/", "/", "S", "/", "A">>,
     <<"c", "f", "n", ":", "/", "/", "S", "/", "*", "#", "f">>,
     <<"C", "F", "N", ":", "/", "/", "S", "/", "B">>,
     <<"c", "f", "n", ":", "S", "/", "A">>,
     <<"h", "t", "t", "p", ":", "/", "/", "S", "/", "A">>,
     <<"S", "/", "A">>}

\* the most remote calls one build can make
MaxBuildLength == PageCount(MaxResources) + MaxResources

NoCall ==
    Call("none", <<>>, <<>>, <<>>, FALSE, <<>>, 0,
         [kind |-> "none", value |-> <<>>, error |-> "none"])

\* the file at the output path: "absent", "old" (it exists, with earlier
\* content) or "written", with the texts written to it since it was opened
\* for writing
File(state, texts) == [state |-> state, texts |-> texts]

\* the process before run() is called: nothing resolved, nothing printed,
\* the output file as the file system holds it
NotRunning(file) ==
    [pc |-> "idle", template |-> <<>>, resolved |-> <<>>,
     minify |-> FALSE, output_file |-> "None", stdout |-> <<>>,
     file |-> file]

\* one stack, S, exists; its resources are any of RemoteContents
Init ==
    /\ \E n \in 0..MaxResources :
          \E rS \in RemoteContents(<<"S">>, n) :
              remote = [s \in {<<"S">>} |-> rS]
    /\ STACK_LOOKUP = <<>>
    /\ listCalls = [s \in DOMAIN remote |-> 0]
    /\ describeCalls = [s \in DOMAIN remote |-> [idn \in LogicalIds |-> 0]]
    /\ failures = [s \in DOMAIN remote |-> 0]
    /\ last = NoCall
    /\ process = NotRunning(File("absent", <<>>))

RetrieveAttribute ==
    /\ \E request \in Requests, failAt \in 0..MaxBuildLength :
          retrieve_attribute(request[1], request[2], failAt,
                             "retrieve_attribute", <<>>)
    /\ UNCHANGED process

HandleCfnUri ==
    /\ \E uri \in Uris, failAt \in 0..MaxBuildLength :
          handle_cfn_uri(uri, failAt)
    /\ UNCHANGED process

Next == RetrieveAttribute \/ HandleCfnUri

Spec == Init /\ [][Next]_vars

\* ---------------------------------------------------------------------
\* parse_cfn_uri on its own: the parser applied to URIs built from their
\* components
\* ---------------------------------------------------------------------

\* the URIs the parser is applied to: a scheme, then no authority, an empty
\* one or a stack name, then a path, a query and a fragment, each present
\* or not. (No path of the model begins with '//' after an absent or empty
\* authority: urlunsplit rebuilds such a URI differently from one Python
\* release to the next.)
BaseUris ==
    {scheme \o <<":">> \o authority \o path \o query \o fragment :
        scheme \in {<<"c", "f", "n">>, <<"C", "F", "N">>,
                    <<"h", "t", "t", "p">>},
        authority \in {<<>>, <<"/", "/">>, <<"/", "/", "S">>},
        path \in {<<>>, <<"/">>, <<"/", "A">>, <<"/", "A", "/", "B">>,
                  <<"S", "/", "A">>},
        query \in {<<>>, <<"?", "q">>},
        fragment \in {<<>>, <<"#", "g">>}}

\* the fragments appended to a URI
Fragments == {<<>>, <<"f">>}

\* the pair parse_cfn_uri returns, as an outcome
ReturnedPair(stack_name, path) ==
    [kind |-> "pair", value |-> <<stack_name, path>>, error |-> "none"]

\* the record of a call of parse_cfn_uri(uri)
ParseCall(uri, parsed) ==
    Call("parse_cfn_uri", uri, parsed.stack_name, parsed.path, FALSE, <<>>, 0,
         IF parsed.raised THEN Raised("InvalidScheme")
         ELSE ReturnedPair(parsed.stack_name, parsed.path))

\* one call of parse_cfn_uri: of a URI of BaseUris, and after it of the same
\* URI with '#' and a fragment appended
ParseCfnUri ==
    /\ \E uri \in (IF last.op = "parse_cfn_uri" /\ last.uri \in BaseUris
                   THEN {last.uri \o <<"#">> \o f : f \in Fragments}
                   ELSE BaseUris) :
          last' = ParseCall(uri, parse_cfn_uri(uri))
    /\ last.op = "parse_cfn_uri" => last.uri \in BaseUris
    /\ UNCHANGED <<remote, STACK_LOOKUP, listCalls, describeCalls, failures,
                   process>>

\* ---------------------------------------------------------------------
\* main.py: the resolver over boto's describe_stack_resource
\* ---------------------------------------------------------------------

\* str.strip(c) for a one-character c
RECURSIVE LStrip(_, _)
LStrip(s, c) == IF s # <<>> /\ Head(s) = c THEN LStrip(Tail(s), c) ELSE s

RECURSIVE RStrip(_, _)
RStrip(s, c) ==
    IF s # <<>> /\ s[Len(s)] = c THEN RStrip(SubSeq(s, 1, Len(s) - 1), c)
    ELSE s

Strip(s, c) == RStrip(LStrip(s, c), c)

\* str.split(sep) for a one-character sep: always at least one part
RECURSIVE Split(_, _)
Split(s, sep) ==
    LET i == Find(s, sep, 1)
    IN  IF i = 0 THEN <<s>>
        ELSE <<Slice(s, 1, i - 1)>> \o Split(Slice(s, i + 1, Len(s)), sep)

\* the names bound in main.py's module namespace: its imports and its
\* functions
MainGlobals ==
    {"boto", "click", "json", "urldefrag", "urlsplit", "resolve",
     "retrieve_attribute", "parse_cfn_uri", "handle_cfn_uri",
     "resolve_template_with_cfn_support", "cli"}

\* the keys of boto's StackResourceDetail that the model's resources carry
PhysicalResourceIdKey ==
    <<"P", "h", "y", "s", "i", "c", "a", "l", "R", "e", "s", "o", "u", "r",
      "c", "e", "I", "d">>

LogicalResourceIdKey ==
    <<"L", "o", "g", "i", "c", "a", "l", "R", "e", "s", "o", "u", "r", "c",
      "e", "I", "d">>

\* the attribute handle_cfn_uri asks for when the URI names none:
\* 'PhysicalResourceID'
DefaultAttribute ==
    <<"P", "h", "y", "s", "i", "c", "a", "l", "R", "e", "s", "o", "u", "r",
      "c", "e", "I", "D">>

\* Python's None, for a component the URI does not have
None == <<"None">>

\* main.py's parse_cfn_uri from `# Check URI scheme` on: the tuple it
\* returns or the exception it raises
MainParsed(stack_name, logical_name, attribute, region) ==
    [raised |-> FALSE, error |-> "none", stack_name |-> stack_name,
     logical_name |-> logical_name, attribute |-> attribute,
     region |-> region]

MainParseFailed(e) ==
    [raised |-> TRUE, error |-> e, stack_name |-> <<>>,
     logical_name |-> <<>>, attribute |-> None, region |-> None]

MainParseParts(scheme, netloc_parts, path_parts) ==
    IF scheme # <<"c", "f", "n">> THEN MainParseFailed("InvalidScheme")
    ELSE IF Len(netloc_parts) > 2
    THEN MainParseFailed("UnexpectedComponents")
    ELSE IF Len(netloc_parts) < 1 THEN MainParseFailed("MissingStackName")
    ELSE IF Len(path_parts) > 2 THEN MainParseFailed("UnexpectedComponents")
    ELSE IF Len(path_parts) < 1 THEN MainParseFailed("MissingLogicalName")
    ELSE MainParsed(netloc_parts[1], path_parts[1],
                    IF Len(path_parts) = 2 THEN path_parts[2] ELSE None,
                    IF Len(netloc_parts) = 2 THEN netloc_parts[2] ELSE None)

MainSplitParts(base_uri_parts) ==
    MainParseParts(base_uri_parts.scheme,
                   Split(base_uri_parts.netloc, "@"),
                   Split(Strip(base_uri_parts.path, "/"), "/"))

\* main.py's parse_cfn_uri(uri). Its first statement evaluates the name
\* `urlparse`, which raises NameError when the module does not bind it.
main_parse_cfn_uri(uri) ==
    IF "urlparse" \notin MainGlobals THEN MainParseFailed("NameError")
    ELSE MainSplitParts(urlsplit(urldefrag(uri)))

\* sr_detail[attribute]
DetailAttribute(sr_detail, attribute) ==
    IF attribute = PhysicalResourceIdKey
    THEN Returned(sr_detail.PhysicalResourceId)
    ELSE IF attribute = LogicalResourceIdKey
    THEN Returned(sr_detail.LogicalResourceId)
    ELSE Raised("KeyError")

\* main.py's retrieve_attribute: one describe_stack_resource call, which
\* raises for a stack or a resource that does not exist
main_retrieve_attribute(stack_name, logical_name, attribute, region) ==
    IF /\ stack_name \in DOMAIN remote
       /\ \E k \in 1..Len(remote[stack_name]) :
              remote[stack_name][k].LogicalResourceId = logical_name
    THEN DetailAttribute(describe_stack_resource(stack_name, logical_name),
                         attribute)
    ELSE Raised("RemoteCallFailure")

\* main.py's handle_cfn_uri after the URI is parsed: the default attribute
\* and the retrieval
MainHandleParsed(uri, parsed) ==
    IF parsed.raised
    THEN Call("main.handle_cfn_uri", uri, <<>>, <<>>, FALSE, <<>>, 0,
              Raised(parsed.error))
    ELSE Call("main.handle_cfn_uri", uri, parsed.stack_name,
              parsed.logical_name, FALSE,
              <<DescribeCall(parsed.stack_name, parsed.logical_name)>>, 0,
              main_retrieve_attribute(
                  parsed.stack_name, parsed.logical_name,
                  IF parsed.attribute = None THEN DefaultAttribute
                  ELSE parsed.attribute,
                  parsed.region))

\* main.py's handle_cfn_uri(uri)
main_handle_cfn_uri(uri) ==
    /\ last' = MainHandleParsed(uri, main_parse_cfn_uri(uri))
    /\ UNCHANGED <<remote, STACK_LOOKUP, listCalls, describeCalls, failures,
                   process>>

\* cfn://<stack-name>/<logical-name>[/<attribute>]; attribute None leaves
\* the component out
MainUri(stack_name, logical_name, attribute) ==
    <<"c", "f", "n", ":", "/", "/">> \o stack_name \o <<"/">> \o
    logical_name \o
    (IF attribute = None THEN <<>> ELSE <<"/">> \o attribute)

\* the URIs main.py's handler is given: every logical id of the model,
\* without an attribute and with each attribute of the detail record
MainUris ==
    {MainUri(<<"S">>, idn, a) :
        idn \in LogicalIds,
        a \in {None, PhysicalResourceIdKey, LogicalResourceIdKey}}

MainHandleCfnUri == \E uri \in MainUris : main_handle_cfn_uri(uri)

\* stack S with MaxResources resources, none of them with Metadata
InitUri ==
    /\ Init
    /\ Len(remote[<<"S">>]) = MaxResources
    /\ \A k \in 1..MaxResources :
          remote[<<"S">>][k].Metadata.kind = "absent"

NextUri == ParseCfnUri \/ MainHandleCfnUri

SpecUri == InitUri /\ [][NextUri]_vars

\* ---------------------------------------------------------------------
\* run (cli.py): one execution of the command, from the template to the
\* output. The template is the sequence of its external-reference
\* directives, in the order the resolution engine meets them.
\* ---------------------------------------------------------------------

\* the templates of the model: none, one or two directives; exact names,
\* a pattern and a URI of a scheme the registry does not hold
Templates ==
    LET a == <<"c", "f", "n", ":", "/", "/", "S", "/", "A">>
        b == <<"c", "f", "n", ":", "/", "/", "S", "/", "B">>
        g == <<"c", "f", "n", ":", "/", "/", "S", "/", "*", "#", "f">>
        h == <<"h", "t", "t", "p", ":", "/", "/", "S", "/", "A">>
    IN  {<<>>, <<a>>, <<g>>, <<h>>, <<a, b>>, <<a, g>>, <<g, b>>, <<a, h>>}

\* the --output-file option: None, or a path
OutputFiles == {"None", "out.json"}

\* `indent = None if minify else 4`: no indentation, or one of 4
Indent(minify) == IF minify THEN <<>> ELSE <<4>>

\* json.dumps(resolved_tree, indent=indent): the text is determined by the
\* resolved values and the indentation
Dumps(resolved_tree, indent) == [tree |-> resolved_tree, indent |-> indent]

\* a run() that opens the output file for writing before it resolves
FileAfterStart_OpenedForWriting(file, output_file) ==
    IF output_file = "None" THEN file ELSE File("written", <<>>)

\* the output file once run() has reached the call of resolve: run() has
\* opened only the document, for reading
FileAfterStart(file, output_file) == file

\* run() up to the call of resolve: the options are taken, the document is
\* opened and loaded
RunStart ==
    /\ process.pc = "idle"
    /\ \E minify \in BOOLEAN, output_file \in OutputFiles,
          template \in Templates :
          process' = [process EXCEPT
                         !.pc = "resolving",
                         !.template = template,
                         !.minify = minify,
                         !.output_file = output_file,
                         !.file = FileAfterStart(process.file, output_file)]
    /\ UNCHANGED <<remote, STACK_LOOKUP, listCalls, describeCalls, failures,
                   last>>

\* the scheme-keyed registry run() passes to resolve: {'cfn': handle_cfn_uri}
Registry == {<<"c", "f", "n">>}

\* the process after the engine has dealt with one directive: an error
\* ends the pass, a value is spliced into the tree
AfterDirective(outcome) ==
    IF outcome.kind = "error" THEN [process EXCEPT !.pc = "failed"]
    ELSE [process EXCEPT !.resolved = Append(@, outcome)]

\* resolve's next directive: its scheme is looked up in the registry and
\* the handler is called with the URI
RunResolve ==
    /\ process.pc = "resolving"
    /\ Len(process.resolved) < Len(process.template)
    /\ LET uri == process.template[Len(process.resolved) + 1]
       IN  IF urlsplit(uri).scheme \in Registry
           THEN \E failAt \in 0..MaxBuildLength : handle_cfn_uri(uri, failAt)
           ELSE /\ last' = Call("resolve", uri, <<>>, <<>>, FALSE, <<>>, 0,
                                Raised("UnsupportedScheme"))
                /\ UNCHANGED <<remote, STACK_LOOKUP, listCalls,
                               describeCalls, failures>>
    /\ process' = AfterDirective(last'.outcome)

\* run() after resolve has returned the tree: json.dumps, then print or
\* open(output_file, 'w') and write
RunEmit ==
    /\ process.pc = "resolving"
    /\ Len(process.resolved) = Len(process.template)
    /\ LET resolved == Dumps(process.resolved, Indent(process.minify))
       IN  process' =
              IF process.output_file = "None"
              THEN [process EXCEPT !.pc = "done",
                                   !.stdout = Append(@, resolved)]
              ELSE [process EXCEPT !.pc = "done",
                                   !.file = File("written", <<resolved>>)]
    /\ UNCHANGED <<remote, STACK_LOOKUP, listCalls, describeCalls, failures,
                   last>>

\* a fresh process; the file at the output path exists or not
InitRun ==
    /\ \E n \in 0..MaxResources :
          \E rS \in RemoteContents(<<"S">>, n) :
              remote = [s \in {<<"S">>} |-> rS]
    /\ STACK_LOOKUP = <<>>
    /\ listCalls = [s \in DOMAIN remote |-> 0]
    /\ describeCalls = [s \in DOMAIN remote |-> [idn \in LogicalIds |-> 0]]
    /\ failures = [s \in DOMAIN remote |-> 0]
    /\ last = NoCall
    /\ \E state \in {"absent", "old"} :
          process = NotRunning(File(state, <<>>))

NextRun == RunStart \/ RunResolve \/ RunEmit

SpecRun == InitRun /\ [][NextRun]_vars

\* ---------------------------------------------------------------------
\* Two stacks: retrieve_attribute called for S and for T in one process
\* ---------------------------------------------------------------------

\* the calls made when two stacks exist: for each stack an exact name and
\* the pattern */A, which matches a path of either stack, and a call for a
\* stack that does not exist
StackRequests ==
    {<<(<<"S">>), <<"S", "/", "A">>>>, <<(<<"S">>), <<"*", "/", "A">>>>,
     <<(<<"T">>), <<"T", "/", "A">>>>, <<(<<"T">>), <<"*", "/", "A">>>>,
     <<(<<"N">>), <<"N", "/", "A">>>>}

\* stacks S and T exist: S holds any of RemoteContents, T one resource with
\* a path
InitStacks ==
    /\ \E n \in 0..MaxResources :
          \E rS \in RemoteContents(<<"S">>, n) :
              remote = [s \in {<<"S">>, <<"T">>} |->
                           IF s = <<"S">> THEN rS
                           ELSE <<[LogicalResourceId  |-> LogicalId(1),
                                   PhysicalResourceId |-> PhysicalId(s, 1),
                                   Metadata |-> [kind |-> "path",
                                                 path |-> CdkPath(s, <<"A">>)]
                                  ]>>]
    /\ STACK_LOOKUP = <<>>
    /\ listCalls = [s \in DOMAIN remote |-> 0]
    /\ describeCalls = [s \in DOMAIN remote |-> [idn \in LogicalIds |-> 0]]
    /\ failures = [s \in DOMAIN remote |-> 0]
    /\ last = NoCall
    /\ process = NotRunning(File("absent", <<>>))

\* a call for S or T; the remote answers every call of a build or fails
\* its first one
RetrieveAttributeOfStacks ==
    /\ \E request \in StackRequests, failAt \in {0, 1} :
          retrieve_attribute(request[1], request[2], failAt,
                             "retrieve_attribute", <<>>)
    /\ UNCHANGED process

SpecStacks == InitStacks /\ [][RetrieveAttributeOfStacks]_vars

\* ---------------------------------------------------------------------
\* Properties
\* ---------------------------------------------------------------------

\* the path holds one of the glob metacharacters '*', '?', '['
HasGlobChar(path) == \E k \in 1..Len(path) : path[k] \in {"*", "?", "["}

\* the latest call got as far as the lookup: it returned, or raised
\* PathNotFound or NoMatchFound
LookedUp ==
    \/ last.outcome.kind \in {"scalar", "list"}
    \/ last.outcome.error \in {"PathNotFound", "NoMatchFound"}

\* the index of the stack the latest call named
Index == STACK_LOOKUP[last.stack_name]

\* the physical ids of the keys of an index that match a pattern, in the
\* order of the index
Matching(stack, pattern) ==
    LET hits == SelectSeq(stack, LAMBDA entry : fnmatch(entry[1], pattern))
    IN  [k \in 1..Len(hits) |-> hits[k][2]]

\* the remote calls of one complete build of stack s: every page of the
\* listing, then one describe per resource, in enumeration order
CompleteBuild(s) ==
    [k \in 1..PageCount(Len(remote[s])) |-> ListCall(s, k)] \o
    [k \in 1..Len(remote[s]) |->
        DescribeCall(s, remote[s][k].LogicalResourceId)]

\* the scheme of the URI, in lower case as urlsplit reports it, is "cfn"
SchemeIsCfn(uri) ==
    /\ Len(uri) >= 4
    /\ uri[4] = ":"
    /\ Lower(SubSeq(uri, 1, 3)) = <<"c", "f", "n">>

\* C1: a call whose requested path has no glob metacharacter and is a key
\* of the stack's index returns the physical id the index maps that path
\* to, on every call, the one that builds the index included.
C1_ExactLookupReturnsIndexedId ==
    (LookedUp /\ ~HasGlobChar(last.path) /\ DictHas(Index, last.path))
        => last.outcome = Returned(DictGet(Index, last.path))

\* C2: two calls with the same (stack_name, path), none of them cut short
\* by a remote failure, have the same outcome, whether the index was cached
\* or had to be built. (Stated of two calls in a row.)
C2_SameCallSameOutcome ==
    [][(/\ last.op # "none"
        /\ last'.stack_name = last.stack_name
        /\ last'.path = last.path
        /\ last.outcome.error # "RemoteCallFailure"
        /\ last'.outcome.error # "RemoteCallFailure")
            => last'.outcome = last.outcome]_vars

\* C3: while no remote call for a stack has failed, the listing of the stack
\* has been enumerated once and each of its resources described once if the
\* stack is cached, and never otherwise; the call that builds the index
\* makes exactly the calls of one complete build; a call that finds the
\* stack name in STACK_LOOKUP makes no remote call.
C3_BuiltOnce ==
    /\ last.hit => last.calls = <<>>
    /\ (LookedUp /\ ~last.hit) => last.calls = CompleteBuild(last.stack_name)
    /\ \A s \in DOMAIN remote :
          failures[s] = 0 =>
            /\ listCalls[s] = IF s \in DOMAIN STACK_LOOKUP THEN 1 ELSE 0
            /\ \A idn \in LogicalIds :
                  describeCalls[s][idn] =
                    IF /\ s \in DOMAIN STACK_LOOKUP
                       /\ \E k \in 1..Len(remote[s]) :
                             remote[s][k].LogicalResourceId = idn
                    THEN 1 ELSE 0

\* C3's case: a failing lookup that hit the cached index of a stack with
\* MaxResources resources, built without a remote failure
C3_Witness ==
    /\ last.hit
    /\ last.outcome.kind = "error"
    /\ last.stack_name = <<"S">>
    /\ Len(remote[<<"S">>]) = MaxResources
    /\ failures[<<"S">>] = 0

\* C4: a call whose requested path has no glob metacharacter and is not a
\* key of the stack's index raises PathNotFound and returns no value, on
\* every call, the one that builds the index included.
C4_MissingPathRaises ==
    (LookedUp /\ ~HasGlobChar(last.path) /\ ~DictHas(Index, last.path))
        => last.outcome = Raised("PathNotFound")

\* C5: a call returns a list if and only if the requested path holds a glob
\* metacharacter, and a scalar otherwise, cached index or not.
C5_ListIffGlob ==
    (last.outcome.kind \in {"scalar", "list"})
        => (last.outcome.kind = "list" <=> HasGlobChar(last.path))

\* C6: a call whose requested path holds a glob metacharacter and that
\* returns, returns the physical ids of exactly the index keys matching the
\* requested pattern, in the order of the index.
C6_GlobReturnsMatches ==
    (HasGlobChar(last.path) /\ last.outcome.kind \in {"scalar", "list"})
        => last.outcome = ReturnedList(Matching(Index, last.path))

\* C7: a glob lookup never returns an empty list: when the requested pattern
\* matches no key of the stack's index, the call raises NoMatchFound.
C7_NoMatchRaises ==
    /\ last.outcome # ReturnedList(<<>>)
    /\ (LookedUp /\ HasGlobChar(last.path)
            /\ Matching(Index, last.path) = <<>>)
        => last.outcome = Raised("NoMatchFound")

\* C8: when a remote call of a build raises, retrieve_attribute raises that
\* error, the raising call is the last remote call it made, and STACK_LOOKUP
\* is as before the call, with no entry for the stack name.
C8_AllOrNothingBuild ==
    [][last'.raisedAt # 0 =>
        /\ last'.outcome = Raised("RemoteCallFailure")
        /\ Len(last'.calls) = last'.raisedAt
        /\ STACK_LOOKUP' = STACK_LOOKUP
        /\ last'.stack_name \notin DOMAIN STACK_LOOKUP']_vars

\* C8's case: the describe of the last of S's MaxResources resources raised,
\* after the listing and the other describes went through
C8_Witness ==
    /\ last.stack_name = <<"S">>
    /\ Len(remote[<<"S">>]) = MaxResources
    /\ last.raisedAt = BuildLength(<<"S">>)
    /\ remote[<<"S">>][1].Metadata.kind = "path"

\* C9: once STACK_LOOKUP has an entry for a stack name, every later state
\* has an equal entry for it.
C9_CacheOnlyGrows ==
    [][\A s \in DOMAIN STACK_LOOKUP :
          /\ s \in DOMAIN STACK_LOOKUP'
          /\ STACK_LOOKUP'[s] = STACK_LOOKUP[s]]_vars

\* C9's case: a lookup that raised against a cached, non-empty index, which
\* is still there after it
C9_Witness ==
    /\ last.hit
    /\ last.outcome.error \in {"PathNotFound", "NoMatchFound"}
    /\ last.stack_name \in DOMAIN STACK_LOOKUP
    /\ Index # <<>>

\* C10: handle_cfn_uri with a URI whose scheme is not "cfn" raises
\* InvalidScheme, makes no remote call and leaves STACK_LOOKUP unchanged.
C10_OtherSchemeRejected ==
    [][(last'.op = "handle_cfn_uri" /\ ~SchemeIsCfn(last'.uri)) =>
        /\ last'.outcome = Raised("InvalidScheme")
        /\ last'.calls = <<>>
        /\ UNCHANGED <<STACK_LOOKUP, listCalls, describeCalls>>]_vars

\* C10's case: an http:// URI handled and rejected while S was not cached
\* yet, so that a lookup would have had to call the remote
C10_Witness ==
    /\ last.op = "handle_cfn_uri"
    /\ last.uri = <<"h", "t", "t", "p", ":", "/", "/", "S", "/", "A">>
    /\ last.outcome = Raised("InvalidScheme")
    /\ <<"S">> \notin DOMAIN STACK_LOOKUP

\* the authority and the path of a URI once its fragment is cut off
Authority(uri) == urlsplit(urldefrag(uri)).netloc

PathOf(uri) == urlsplit(urldefrag(uri)).path

\* the part of s before its first '/', all of s when it has none
FirstSegment(s) ==
    LET i == Find(s, "/", 1)
    IN  IF i = 0 THEN s ELSE Slice(s, 1, i - 1)

\* s begins with prefix
BeginsWith(s, prefix) ==
    Len(prefix) <= Len(s) /\ SubSeq(s, 1, Len(prefix)) = prefix

\* C11: whenever parse_cfn_uri returns for a URI, the stack name is the
\* URI's authority and the locator is the authority followed by the path,
\* so the locator begins with the stack name and the stack name is the
\* locator's first '/'-separated segment; and parsing u + '#' + f right
\* after parsing u gives the same result as u gave.
C11_FragmentDiscardedLocatorFromAuthority ==
    [][(last'.op = "parse_cfn_uri" /\ last'.outcome.kind = "pair") =>
          /\ last'.stack_name = Authority(last'.uri)
          /\ last'.path = Authority(last'.uri) \o PathOf(last'.uri)
          /\ BeginsWith(last'.path, last'.stack_name)
          /\ FirstSegment(last'.path) = last'.stack_name
          /\ \A f \in Fragments :
                (last.op = "parse_cfn_uri" /\
                 last'.uri = last.uri \o <<"#">> \o f) =>
                    last'.outcome = last.outcome]_vars

\* a mandatory component of a cfn URI is missing: the stack name (the
\* authority) or the logical name / path
MissingComponent(uri) ==
    \/ Authority(uri) = <<>>
    \/ Strip(PathOf(uri), "/") = <<>>

\* C12: handle_cfn_uri given a URI of scheme cfn with an empty stack name
\* or an empty path raises without a lookup: retrieve_attribute is not
\* reached, so no remote call is made and the error is not one of its own.
C12_MissingComponentRejected ==
    (/\ last.op = "handle_cfn_uri"
     /\ SchemeIsCfn(last.uri)
     /\ MissingComponent(last.uri)) =>
        /\ last.outcome.kind = "error"
        /\ last.calls = <<>>
        /\ last.outcome.error \notin
               {"RemoteCallFailure", "PathNotFound", "NoMatchFound"}

\* C14: main.py's handle_cfn_uri given cfn://<stack>/<logical-name> for a
\* resource of the stack returns the resource's physical id, and given
\* cfn://<stack>/<logical-name>/<attribute> returns exactly that attribute
\* of the resource's detail record.
C14_DefaultAttributeIsPhysicalId ==
    \A k \in 1..Len(remote[<<"S">>]) :
        LET detail == remote[<<"S">>][k]
            idn    == detail.LogicalResourceId
        IN  /\ last.op = "main.handle_cfn_uri" /\
               last.uri = MainUri(<<"S">>, idn, None) =>
                   last.outcome = Returned(detail.PhysicalResourceId)
            /\ \A a \in {PhysicalResourceIdKey, LogicalResourceIdKey} :
                  last.op = "main.handle_cfn_uri" /\
                  last.uri = MainUri(<<"S">>, idn, a) =>
                      last.outcome = DetailAttribute(detail, a)

\* the output of the process is as it was before run() was called: nothing
\* printed, the file at the output path not created, truncated or written
NoOutput ==
    /\ process.stdout = <<>>
    /\ process.file.state \in {"absent", "old"}
    /\ process.file.texts = <<>>

\* C13: while run() is resolving the template, and after resolution has
\* raised an error, nothing has been printed and the output file has not
\* been created, truncated or written; once run() has emitted its output,
\* every directive of the template had been resolved to a value, and the
\* output is the one text of the whole resolved tree, on stdout or in the
\* file.
C13_NoPartialOutput ==
    /\ process.pc \in {"idle", "resolving", "failed"} => NoOutput
    /\ process.pc = "done" =>
          /\ Len(process.resolved) = Len(process.template)
          /\ \A k \in 1..Len(process.resolved) :
                process.resolved[k].kind \in {"scalar", "list"}
          /\ LET text == Dumps(process.resolved, Indent(process.minify))
             IN  IF process.output_file = "None"
                 THEN /\ process.stdout = <<text>>
                      /\ process.file.state \in {"absent", "old"}
                      /\ process.file.texts = <<>>
                 ELSE /\ process.stdout = <<>>
                      /\ process.file = File("written", <<text>>)

\* run() failed on the second directive, after the first was resolved,
\* with an output file given that existed before
C13_Witness ==
    /\ process.pc = "failed"
    /\ Len(process.resolved) = 1
    /\ process.output_file # "None"
    /\ process.file.state = "old"
    /\ last.outcome.error \in {"PathNotFound", "UnsupportedScheme"}

\* the positions, in enumeration order over all pages, of the resources of
\* stack s whose detail record has Metadata with 'aws:cdk:path'
WithCdkPath(s) ==
    {k \in 1..Len(remote[s]) : remote[s][k].Metadata.kind = "path"}

\* the latest of them that reports the path
LatestWith(s, path) ==
    CHOOSE k \in WithCdkPath(s) :
        /\ remote[s][k].Metadata.path = path
        /\ \A j \in WithCdkPath(s) :
              remote[s][j].Metadata.path = path => j <= k

\* C15: the index stored for a stack has exactly the aws:cdk:path values
\* of the stack's resources as its keys (a resource without Metadata or
\* without the field adds none), each key once, and maps each key to the
\* physical id of the resource enumerated last among those reporting it.
C15_IndexContents ==
    \A s \in DOMAIN STACK_LOOKUP :
        LET stack == STACK_LOOKUP[s]
            paths == {remote[s][k].Metadata.path : k \in WithCdkPath(s)}
        IN  /\ s \in DOMAIN remote
            /\ {stack[k][1] : k \in 1..Len(stack)} = paths
            /\ Len(stack) = Cardinality(paths)
            /\ \A k \in 1..Len(stack) :
                  stack[k][2] =
                      remote[s][LatestWith(s, stack[k][1])].PhysicalResourceId

\* an index is stored for a stack of several pages in which two resources
\* report the same path
C15_Witness ==
    /\ <<"S">> \in DOMAIN STACK_LOOKUP
    /\ PageCount(Len(remote[<<"S">>])) > 1
    /\ \E i, j \in WithCdkPath(<<"S">>) :
          i < j /\ remote[<<"S">>][i].Metadata.path =
                   remote[<<"S">>][j].Metadata.path

\* every index build of stack s so far was aborted by a failing remote call
\* (none was made, when both counters are 0)
NoBuildCompleted(s) == listCalls[s] = failures[s]

\* C17: a call for a stack none of whose builds has run to completion is
\* never served from the cache; and when an earlier build of the stack was
\* aborted by a remote failure, the call enumerates afresh from the first
\* page, makes the whole enumeration (every page, then one describe per
\* resource) unless it fails too, and stores the index that a build from
\* nothing computes.
C17_RebuildAfterFailure ==
    [][\A s \in DOMAIN remote :
          (last'.stack_name = s /\ NoBuildCompleted(s)) =>
              /\ ~last'.hit
              /\ failures[s] > 0 =>
                    /\ Len(last'.calls) >= 1
                    /\ last'.calls =
                           SubSeq(CompleteBuild(s), 1, Len(last'.calls))
                    /\ last'.raisedAt = 0 =>
                          /\ last'.calls = CompleteBuild(s)
                          /\ s \in DOMAIN STACK_LOOKUP'
                          /\ STACK_LOOKUP'[s] = BuildIndex(s, <<>>, 0).stack
      ]_vars

\* the latest call rebuilt the index of a stack of several resources, one
\* with a path, after a build of it had failed
C17_Witness ==
    /\ failures[<<"S">>] >= 1
    /\ last.stack_name = <<"S">>
    /\ ~last.hit
    /\ last.raisedAt = 0
    /\ <<"S">> \in DOMAIN STACK_LOOKUP
    /\ Len(remote[<<"S">>]) >= 2
    /\ STACK_LOOKUP[<<"S">>] # <<>>

\* the physical ids an index holds
IdsOf(stack) == {stack[k][2] : k \in 1..Len(stack)}

\* C16: a retrieve_attribute call for stack name a leaves the cache entry
\* of every other stack name as it was and adds no entry but a's, makes
\* remote calls for stack a only, and returns only physical ids of a's
\* index, none of them an id held by another stack's index.
C16_StackIsolation ==
    [][LET a == last'.stack_name
       IN  /\ \A s \in DOMAIN STACK_LOOKUP \ {a} :
                  /\ s \in DOMAIN STACK_LOOKUP'
                  /\ STACK_LOOKUP'[s] = STACK_LOOKUP[s]
           /\ DOMAIN STACK_LOOKUP' \subseteq DOMAIN STACK_LOOKUP \cup {a}
           /\ \A k \in 1..Len(last'.calls) : last'.calls[k].StackName = a
           /\ \A s \in DOMAIN remote \ {a} :
                  /\ listCalls'[s] = listCalls[s]
                  /\ describeCalls'[s] = describeCalls[s]
           /\ \A k \in 1..Len(last'.outcome.value) :
                  /\ a \in DOMAIN STACK_LOOKUP'
                  /\ last'.outcome.value[k] \in IdsOf(STACK_LOOKUP'[a])
                  /\ \A s \in DOMAIN STACK_LOOKUP' \ {a} :
                        last'.outcome.value[k] \notin IdsOf(STACK_LOOKUP'[s])
      ]_vars

\* the latest call built the index of S and returned from it while T's
\* index, which is not empty, was in the cache
C16_Witness ==
    /\ last.stack_name = <<"S">>
    /\ ~last.hit
    /\ last.outcome.kind \in {"scalar", "list"}
    /\ <<"T">> \in DOMAIN STACK_LOOKUP
    /\ STACK_LOOKUP[<<"T">>] # <<>>
    /\ listCalls[<<"T">>] = 1

====
